---- MODULE Spec2Model ----
(***************************************************************************)
(* Model of the NBT tag decoder of sbreitf1/mctool (package nbt).          *)
(*                                                                         *)
(* The decoder is a recursive-descent reader over an io.Reader.  The       *)
(* reader is modelled by the byte sequence it delivers (r) and the number  *)
(* of bytes already consumed (pos); every read function returns the        *)
(* advanced cursor together with its value and error.                      *)
(*                                                                         *)
(* Go values are represented as follows:                                   *)
(*   byte, uint16, int16, int32   integers                                 *)
(*   uint32                       <<hi16, lo16>>       (16-bit limbs)      *)
(*   uint64                       <<l3, l2, l1, l0>>   (16-bit limbs)      *)
(*   int64                        <<l3, l2, l1, l0>>, l3 signed            *)
(*   float32, float64             [sign, exp, frac] of the bit pattern     *)
(*   string, []byte               sequence of bytes                        *)
(*   error                        chain of messages, outermost first;      *)
(*                                the empty chain is nil                   *)
(*   map[string]Node              function from byte sequences to nodes    *)
(***************************************************************************)
EXTENDS Integers, Sequences, FiniteSets, TLC

VARIABLES stream, nwrites, result, value

vars == <<stream, nwrites, result, value>>

(***************************************************************************)
(* Bounds of the model.                                                    *)
(***************************************************************************)
MaxWrites == 3
MaxScalarLen == 8

(***************************************************************************)
(* Node type constants.                                                    *)
(***************************************************************************)
NodeTypeEnd == 0
NodeTypeByte == 1
NodeTypeShort == 2
NodeTypeInt == 3
NodeTypeLong == 4
NodeTypeFloat == 5
NodeTypeDouble == 6
NodeTypeByteArray == 7
NodeTypeString == 8
NodeTypeList == 9
NodeTypeCompound == 10
NodeTypeIntArray == 11
NodeTypeLongArray == 12

(***************************************************************************)
(* Errors.                                                                 *)
(***************************************************************************)
Nil == <<>>
EOF == <<"EOF">>
ErrUnexpectedEOF == <<"unexpected EOF">>
ErrUnsupported == <<"unsupported node type">>
PanicMakeslice == <<"panic: makeslice: len out of range">>

IsPanic(err) == err # Nil /\ err[Len(err)] = PanicMakeslice[1]

\* fmt.Errorf("<ctx>: %w", err): the context in front of the wrapped chain.
\* A panic is no error value: it unwinds through every caller unchanged.
Errorf(ctx, err) == IF IsPanic(err) THEN err ELSE <<ctx>> \o err

\* The innermost error of a chain (errors.Unwrap to the end).
Cause(err) == IF err = Nil THEN Nil ELSE <<err[Len(err)]>>

(***************************************************************************)
(* io.ReadFull(r, buf) with len(buf) = n: all n bytes, or an error: EOF    *)
(* when no byte was left, ErrUnexpectedEOF after a partial read.  The      *)
(* reader stands at its end after a failed read.                           *)
(***************************************************************************)
ReadFullShort(r, pos, n) ==
    IF pos + n <= Len(r)
    THEN [val |-> SubSeq(r, pos + 1, pos + n), err |-> Nil, pos |-> pos + n]
    ELSE [val |-> SubSeq(r, pos + 1, Len(r)) \o [i \in 1..(pos + n - Len(r)) |-> 0],
          err |-> Nil, pos |-> Len(r)]

ReadFull(r, pos, n) ==
    IF pos + n <= Len(r)
    THEN [val |-> SubSeq(r, pos + 1, pos + n), err |-> Nil, pos |-> pos + n]
    ELSE [val |-> SubSeq(r, pos + 1, Len(r)) \o [i \in 1..(pos + n - Len(r)) |-> 0],
          err |-> IF pos >= Len(r) THEN EOF ELSE ErrUnexpectedEOF,
          pos |-> Len(r)]

(***************************************************************************)
(* encoding/binary.BigEndian and the integer conversions.                  *)
(***************************************************************************)
Uint16LittleEndian(b) == b[2] * 256 + b[1]

Uint16(b) == b[1] * 256 + b[2]

Uint32(b) == <<Uint16(SubSeq(b, 1, 2)), Uint16(SubSeq(b, 3, 4))>>

Uint64(b) == <<Uint16(SubSeq(b, 1, 2)), Uint16(SubSeq(b, 3, 4)),
               Uint16(SubSeq(b, 5, 6)), Uint16(SubSeq(b, 7, 8))>>

int16(u) == IF u >= 32768 THEN u - 65536 ELSE u

int32(w) == int16(w[1]) * 65536 + w[2]

int64(w) == <<int16(w[1]), w[2], w[3], w[4]>>

\* math.Float32frombits: 1 sign bit, 8 exponent bits, 23 fraction bits.
Float32frombits(w) ==
    [sign |-> w[1] \div 32768,
     exp  |-> (w[1] \div 128) % 256,
     frac |-> (w[1] % 128) * 65536 + w[2]]

\* math.Float64frombits: 1 sign bit, 11 exponent bits, 52 fraction bits
\* (the fraction as limbs of 4, 16, 16 and 16 bits).
Float64frombits(w) ==
    [sign |-> w[1] \div 32768,
     exp  |-> (w[1] \div 16) % 2048,
     frac |-> <<w[1] % 16, w[2], w[3], w[4]>>]

(***************************************************************************)
(* Every function is written as a chain of operators, one per statement    *)
(* that consumes the result of a call: f(r, pos) makes the first call and   *)
(* hands its result to f_<name>, named after the Go variable it binds.      *)
(***************************************************************************)

(***************************************************************************)
(* Raw readers: [val, err, pos].                                           *)
(***************************************************************************)
readRawByte_val(val) ==
    IF val.err # Nil
    THEN [val |-> 0, err |-> val.err, pos |-> val.pos]
    ELSE [val |-> val.val[1], err |-> Nil, pos |-> val.pos]

readRawByte(r, pos) == readRawByte_val(ReadFull(r, pos, 1))

readRawUShort_val(val) ==
    IF val.err # Nil
    THEN [val |-> 0, err |-> val.err, pos |-> val.pos]
    ELSE [val |-> Uint16(val.val), err |-> Nil, pos |-> val.pos]

readRawUShort(r, pos) == readRawUShort_val(ReadFull(r, pos, 2))

readRawInt_val(val) ==
    IF val.err # Nil
    THEN [val |-> 0, err |-> val.err, pos |-> val.pos]
    ELSE [val |-> int32(Uint32(val.val)), err |-> Nil, pos |-> val.pos]

readRawInt(r, pos) == readRawInt_val(ReadFull(r, pos, 4))

readRawString_val(val) ==
    IF val.err # Nil
    THEN [val |-> <<>>, err |-> val.err, pos |-> val.pos]
    ELSE [val |-> val.val, err |-> Nil, pos |-> val.pos]

readRawString_strLen(r, strLen) ==
    IF strLen.err # Nil
    THEN [val |-> <<>>, err |-> strLen.err, pos |-> strLen.pos]
    ELSE readRawString_val(ReadFull(r, strLen.pos, strLen.val))

readRawString(r, pos) == readRawString_strLen(r, readRawUShort(r, pos))

readRawNodeType_val(val) ==
    IF val.err # Nil
    THEN [val |-> 0, err |-> val.err, pos |-> val.pos]
    ELSE [val |-> val.val, err |-> Nil, pos |-> val.pos]

readRawNodeType(r, pos) == readRawNodeType_val(readRawByte(r, pos))

(***************************************************************************)
(* Nodes.  A node is a record whose field struct names its Go type; the    *)
(* nil interface value (the zero value of a []Node element) is NilNode.    *)
(* A node reader returns [node, err, pos, calls]: calls is the history of  *)
(* the readNodeOfType invocations made below it, in call order, each with  *)
(* the requested type and the cursor at the call.                          *)
(***************************************************************************)
NilNode == [struct |-> "nil"]

Ok(node, pos, calls) == [node |-> node, err |-> Nil, pos |-> pos, calls |-> calls]

Fail(err, pos, calls) == [node |-> NilNode, err |-> err, pos |-> pos, calls |-> calls]

\* The Type() methods.
Type(n) ==
    CASE n.struct = "ByteNode"     -> NodeTypeByte
      [] n.struct = "ShortNode"    -> NodeTypeShort
      [] n.struct = "IntNode"      -> NodeTypeInt
      [] n.struct = "LongNode"     -> NodeTypeLong
      [] n.struct = "FloatNode"    -> NodeTypeFloat
      [] n.struct = "DoubleNode"   -> NodeTypeDouble
      [] n.struct = "StringNode"   -> NodeTypeInt
      [] n.struct = "ListNode"     -> NodeTypeList
      [] n.struct = "CompoundNode" -> NodeTypeCompound
      [] n.struct = "IntArrayNode" -> NodeTypeIntArray

readByteNode_val(val) ==
    IF val.err # Nil
    THEN Fail(val.err, val.pos, <<>>)
    ELSE Ok([struct |-> "ByteNode", Value |-> val.val], val.pos, <<>>)

readByteNode(r, pos) == readByteNode_val(readRawByte(r, pos))

readShortNode_val(val) ==
    IF val.err # Nil
    THEN Fail(val.err, val.pos, <<>>)
    ELSE Ok([struct |-> "ShortNode", Value |-> int16(Uint16(val.val))], val.pos, <<>>)

readShortNode(r, pos) == readShortNode_val(ReadFull(r, pos, 2))

readIntNode_val(val) ==
    IF val.err # Nil
    THEN Fail(val.err, val.pos, <<>>)
    ELSE Ok([struct |-> "IntNode", Value |-> val.val], val.pos, <<>>)

readIntNode(r, pos) == readIntNode_val(readRawInt(r, pos))

readLongNode_val(val) ==
    IF val.err # Nil
    THEN Fail(val.err, val.pos, <<>>)
    ELSE Ok([struct |-> "LongNode", Value |-> int64(Uint64(val.val))], val.pos, <<>>)

readLongNode(r, pos) == readLongNode_val(ReadFull(r, pos, 8))

readFloatNode_val(val) ==
    IF val.err # Nil
    THEN Fail(val.err, val.pos, <<>>)
    ELSE Ok([struct |-> "FloatNode", Value |-> Float32frombits(Uint32(val.val))],
            val.pos, <<>>)

readFloatNode(r, pos) == readFloatNode_val(ReadFull(r, pos, 4))

readDoubleNode_val(val) ==
    IF val.err # Nil
    THEN Fail(val.err, val.pos, <<>>)
    ELSE Ok([struct |-> "DoubleNode", Value |-> Float64frombits(Uint64(val.val))],
            val.pos, <<>>)

readDoubleNode(r, pos) == readDoubleNode_val(ReadFull(r, pos, 8))

readStringNode_val(val) ==
    IF val.err # Nil
    THEN Fail(val.err, val.pos, <<>>)
    ELSE Ok([struct |-> "StringNode", Value |-> val.val], val.pos, <<>>)

readStringNode(r, pos) == readStringNode_val(readRawString(r, pos))

\* make([]Node, childCount): childCount nil entries.  A negative length makes
\* the runtime panic (makeslice: len out of range).
makePanics(childCount) == childCount < 0

makeNodes(childCount) == [i \in 1..childCount |-> NilNode]

\* node.Values[childName] = childNode
MapPutKeepFirst(Values, childName, childNode) ==
    [k \in DOMAIN Values \cup {childName} |->
        IF k \in DOMAIN Values THEN Values[k] ELSE childNode]

MapPut(Values, childName, childNode) ==
    [k \in DOMAIN Values \cup {childName} |->
        IF k = childName THEN childNode ELSE Values[k]]

\* make(map[string]Node)
EmptyMap == [k \in {} |-> NilNode]

\* The default branch of readNodeOfType's switch.
unsupportedSkipped(r, pos, nodeType) ==
    Ok(NilNode, IF pos < Len(r) THEN pos + 1 ELSE pos, <<>>)

unsupportedNodeType(r, pos, nodeType) == Fail(ErrUnsupported, pos, <<>>)

RECURSIVE readNodeOfType(_, _, _, _)
RECURSIVE readListNode_loop(_, _, _, _, _, _, _)
RECURSIVE readCompoundNode_loop(_, _, _, _, _)
RECURSIVE readIntArrayNode_loop(_, _, _, _, _, _)

\* readListNode: the loop body from the decoded child on.
readListNode_childNode(r, childNodeType, childCount, i, Values, calls, childNode) ==
    IF childNode.err # Nil
    THEN Fail(Errorf("read list index", childNode.err), childNode.pos,
              calls \o childNode.calls)
    ELSE readListNode_loop(r, childNode.pos, childNodeType, childCount, i + 1,
                           Append(Values, childNode.node), calls \o childNode.calls)

\* readListNode: the loop, at index i.
readListNode_loop(r, pos, childNodeType, childCount, i, Values, calls) ==
    IF i >= childCount
    THEN Ok([struct |-> "ListNode", Values |-> Values], pos, calls)
    ELSE readListNode_childNode(r, childNodeType, childCount, i, Values, calls,
                                readNodeOfType(r, pos, childNodeType, FALSE))

readListNode_childCount(r, childNodeType, childCount) ==
    IF childCount.err # Nil
    THEN Fail(childCount.err, childCount.pos, <<>>)
    ELSE IF makePanics(childCount.val)
         THEN Fail(PanicMakeslice, childCount.pos, <<>>)
         ELSE readListNode_loop(r, childCount.pos, childNodeType.val, childCount.val,
                                0, makeNodes(childCount.val), <<>>)

readListNode_childNodeType(r, childNodeType) ==
    IF childNodeType.err # Nil
    THEN Fail(childNodeType.err, childNodeType.pos, <<>>)
    ELSE readListNode_childCount(r, childNodeType, readRawInt(r, childNodeType.pos))

readListNode(r, pos) == readListNode_childNodeType(r, readRawNodeType(r, pos))

\* readCompoundNode: the loop body after the child is stored.
readCompoundNode_isRoot(r, pos, isRoot, Values, calls) ==
    IF isRoot
    THEN Ok([struct |-> "CompoundNode", Values |-> Values], pos, calls)
    ELSE readCompoundNode_loop(r, pos, isRoot, Values, calls)

readCompoundNode_childNode(r, isRoot, Values, calls, childName, childNode) ==
    IF childNode.err # Nil
    THEN Fail(Errorf("read compound child", childNode.err), childNode.pos,
              calls \o childNode.calls)
    ELSE readCompoundNode_isRoot(r, childNode.pos, isRoot,
                                 MapPut(Values, childName.val, childNode.node),
                                 calls \o childNode.calls)

\* fmt.Println(childName) writes the key to standard output; no value of the
\* decode depends on it and it is left out of the result.
readCompoundNode_childName(r, isRoot, Values, calls, childNodeType, childName) ==
    IF childName.err # Nil
    THEN Fail(childName.err, childName.pos, calls)
    ELSE readCompoundNode_childNode(r, isRoot, Values, calls, childName,
             readNodeOfType(r, childName.pos, childNodeType.val, FALSE))

readCompoundNode_childNodeType(r, isRoot, Values, calls, childNodeType) ==
    IF childNodeType.err # Nil
    THEN Fail(childNodeType.err, childNodeType.pos, calls)
    ELSE IF childNodeType.val = NodeTypeEnd
         THEN Ok([struct |-> "CompoundNode", Values |-> Values], childNodeType.pos, calls)
         ELSE readCompoundNode_childName(r, isRoot, Values, calls, childNodeType,
                                         readRawString(r, childNodeType.pos))

\* readCompoundNode: the loop.
readCompoundNode_loop(r, pos, isRoot, Values, calls) ==
    readCompoundNode_childNodeType(r, isRoot, Values, calls, readRawNodeType(r, pos))

readCompoundNode(r, pos, isRoot) == readCompoundNode_loop(r, pos, isRoot, EmptyMap, <<>>)

\* readIntArrayNode: the loop body from the decoded child on.
readIntArrayNode_childNode(r, childCount, i, Values, calls, childNode) ==
    IF childNode.err # Nil
    THEN Fail(Errorf("read list index", childNode.err), childNode.pos,
              calls \o childNode.calls)
    ELSE readIntArrayNode_loop(r, childNode.pos, childCount, i + 1,
                               Append(Values, childNode.node), calls \o childNode.calls)

\* readIntArrayNode: the loop, at index i.
readIntArrayNode_loop(r, pos, childCount, i, Values, calls) ==
    IF i >= childCount
    THEN Ok([struct |-> "IntArrayNode", Values |-> Values], pos, calls)
    ELSE readIntArrayNode_childNode(r, childCount, i, Values, calls,
                                    readNodeOfType(r, pos, NodeTypeInt, FALSE))

readIntArrayNode_childCount(r, childCount) ==
    IF childCount.err # Nil
    THEN Fail(childCount.err, childCount.pos, <<>>)
    ELSE IF makePanics(childCount.val)
         THEN Fail(PanicMakeslice, childCount.pos, <<>>)
         ELSE readIntArrayNode_loop(r, childCount.pos, childCount.val, 0,
                                    makeNodes(childCount.val), <<>>)

readIntArrayNode(r, pos) == readIntArrayNode_childCount(r, readRawInt(r, pos))

\* The switch of readNodeOfType.
readNodeOfType_switch(r, pos, nodeType, isRoot) ==
    CASE nodeType = NodeTypeByte     -> readByteNode(r, pos)
      [] nodeType = NodeTypeShort    -> readShortNode(r, pos)
      [] nodeType = NodeTypeInt      -> readIntNode(r, pos)
      [] nodeType = NodeTypeLong     -> readLongNode(r, pos)
      [] nodeType = NodeTypeFloat    -> readFloatNode(r, pos)
      [] nodeType = NodeTypeDouble   -> readDoubleNode(r, pos)
      [] nodeType = NodeTypeString   -> readStringNode(r, pos)
      [] nodeType = NodeTypeList     -> readListNode(r, pos)
      [] nodeType = NodeTypeCompound -> readCompoundNode(r, pos, isRoot)
      [] nodeType = NodeTypeIntArray -> readIntArrayNode(r, pos)
      [] OTHER -> unsupportedNodeType(r, pos, nodeType)

\* The call is put in front of the history of the calls made below it.
readNodeOfType_called(call, node) ==
    [node |-> node.node, err |-> node.err, pos |-> node.pos,
     calls |-> <<call>> \o node.calls]

readNodeOfType(r, pos, nodeType, isRoot) ==
    readNodeOfType_called([nodeType |-> nodeType, pos |-> pos, isRoot |-> isRoot],
                          readNodeOfType_switch(r, pos, nodeType, isRoot))

\* ReadFromStream: the File, or the error; panicked when the call was aborted
\* by a runtime panic instead of returning.
ReadFromStream_rootNode(rootNode) ==
    IF IsPanic(rootNode.err)
    THEN [file |-> NilNode, err |-> rootNode.err, panicked |-> TRUE,
          pos |-> rootNode.pos, calls |-> rootNode.calls]
    ELSE IF rootNode.err # Nil
    THEN [file |-> NilNode, err |-> Errorf("read nbt data", rootNode.err),
          panicked |-> FALSE, pos |-> rootNode.pos, calls |-> rootNode.calls]
    ELSE [file |-> [Root |-> rootNode.node], err |-> Nil, panicked |-> FALSE,
          pos |-> rootNode.pos, calls |-> rootNode.calls]

ReadFromStream(r) == ReadFromStream_rootNode(readNodeOfType(r, 0, NodeTypeCompound, TRUE))

(***************************************************************************)
(* The environment: the byte stream handed to ReadFromStream is written    *)
(* chunk by chunk.  The chunks are encoded entries and entry fragments of  *)
(* the wire format, so that their concatenations hold well-formed,         *)
(* truncated and malformed documents.                                      *)
(***************************************************************************)
U16(n) == <<n \div 256, n % 256>>

Str(s) == U16(Len(s)) \o s

Tag(t, name) == <<t>> \o Str(name)

I32(n) == IF n < 0 THEN <<255, 255, 255, 256 + n>> ELSE <<0, 0, 0, n>>

KeyX == <<120>>
KeyY == <<121>>

Chunks ==
    { <<NodeTypeEnd>>,
      Tag(NodeTypeCompound, <<>>),
      Tag(NodeTypeCompound, KeyY) \o Tag(NodeTypeByte, KeyX) \o <<1>>,
      Tag(NodeTypeByte, KeyX) \o <<1>>,
      Tag(NodeTypeByte, KeyX) \o <<2>>,
      Tag(NodeTypeByte, KeyY) \o <<1>>,
      Tag(NodeTypeInt, KeyX) \o I32(42),
      Tag(NodeTypeInt, KeyX) \o <<0, 0>>,
      Tag(NodeTypeString, <<>>) \o Str(KeyX),
      Tag(NodeTypeByteArray, KeyX),
      Tag(NodeTypeLongArray, KeyX),
      Tag(13, KeyX),
      Tag(NodeTypeList, <<>>) \o <<NodeTypeByte>> \o I32(2) \o <<5, 6>>,
      Tag(NodeTypeList, <<>>) \o <<NodeTypeByte>> \o I32(0),
      Tag(NodeTypeList, <<>>) \o <<NodeTypeByte>> \o I32(-1),
      Tag(NodeTypeList, <<>>) \o <<NodeTypeByteArray>> \o I32(1),
      Tag(NodeTypeList, <<>>) \o <<NodeTypeEnd>> \o I32(1),
      Tag(NodeTypeIntArray, <<>>) \o I32(1) \o I32(42) }

None == [pending |-> TRUE]

Init ==
    /\ stream = <<>>
    /\ nwrites = 0
    /\ result = None
    /\ value = None

\* The producer appends one chunk to the stream.
Write(chunk) ==
    /\ result = None
    /\ nwrites < MaxWrites
    /\ stream' = stream \o chunk
    /\ nwrites' = nwrites + 1
    /\ UNCHANGED <<result, value>>

\* The program decodes the stream as it stands.
Decode ==
    /\ result = None
    /\ result' = ReadFromStream(stream)
    /\ UNCHANGED <<stream, nwrites, value>>

Next ==
    \/ \E chunk \in Chunks : Write(chunk)
    \/ Decode

Spec == Init /\ [][Next]_vars

(***************************************************************************)
(* The scalar readers on their own: readNodeOfType applied to a payload    *)
(* whose leading byte (sign and exponent bits) and following bytes take    *)
(* the values at the boundaries of the signed and IEEE-754 ranges.         *)
(***************************************************************************)
HeadBytes == {0, 1, 127, 128, 255}

TailBytes == {0, 128, 255}

ScalarTypes == {NodeTypeByte, NodeTypeShort, NodeTypeInt, NodeTypeLong,
                NodeTypeFloat, NodeTypeDouble}

ScalarInputs ==
    {<<>>} \cup UNION {{<<h>> \o t : h \in HeadBytes, t \in [1..n -> TailBytes]} :
                         n \in 0..(MaxScalarLen - 1)}

ScalarInit ==
    /\ stream \in ScalarInputs
    /\ nwrites = 0
    /\ result = None
    /\ value = None

DecodeValue(nodeType) ==
    /\ value = None
    /\ value' = [nodeType |-> nodeType, out |-> readNodeOfType(stream, 0, nodeType, FALSE)]
    /\ UNCHANGED <<stream, nwrites, result>>

ScalarNext == \E nodeType \in ScalarTypes : DecodeValue(nodeType)

ScalarSpec == ScalarInit /\ [][ScalarNext]_vars

(***************************************************************************)
(* Properties.                                                             *)
(***************************************************************************)
Done == result # None

Calls == IF Done THEN {result.calls[i] : i \in 1..Len(result.calls)} ELSE {}

\* The calls of readNodeOfType for a type, as made by the decode of the stream.
CallsOf(nodeType) == {c \in Calls : c.nodeType = nodeType}

IsEOF(err) == err # Nil /\ Cause(err) \in {EOF, ErrUnexpectedEOF}

\* C1: a successfully decoded List or IntArray with declared count n holds
\* exactly n elements, none of them a placeholder, and an IntArray's elements
\* are Int nodes.
C1_ExactCount ==
    /\ \A c \in CallsOf(NodeTypeList) :
          LET l == readListNode(stream, c.pos)
          IN  l.err = Nil =>
                /\ Len(l.node.Values) = readRawInt(stream, c.pos + 1).val
                /\ \A j \in 1..Len(l.node.Values) : l.node.Values[j].struct # "nil"
    /\ \A c \in CallsOf(NodeTypeIntArray) :
          LET a == readIntArrayNode(stream, c.pos)
          IN  a.err = Nil =>
                /\ Len(a.node.Values) = readRawInt(stream, c.pos).val
                /\ \A j \in 1..Len(a.node.Values) : a.node.Values[j].struct = "IntNode"

\* The two documents of C2.
EmptyDocument == <<10, 0, 0, 0>>
OneIntDocument == <<10, 0, 0, 3, 0, 1, 120, 0, 0, 0, 42, 0>>

\* C2: the root Map of the decoded document [Map tag, root name, entries, End]
\* holds the document's entries under their own names: none for EmptyDocument,
\* "x" -> Int(42) alone for OneIntDocument.
C2_RootHoldsEntries ==
    /\ (Done /\ stream = EmptyDocument) =>
          /\ result.err = Nil
          /\ DOMAIN result.file.Root.Values = {}
    /\ (Done /\ stream = OneIntDocument) =>
          /\ result.err = Nil
          /\ DOMAIN result.file.Root.Values = {KeyX}
          /\ result.file.Root.Values[KeyX] = [struct |-> "IntNode", Value |-> 42]

\* C3: a stream whose first byte is not the Map tag is never decoded into a
\* File: ReadFromStream returns an error.
C3_RootMustBeMap ==
    (Done /\ Len(stream) >= 1 /\ stream[1] # NodeTypeCompound) =>
        /\ result.err # Nil
        /\ result.file = NilNode

\* The entries of the Map that starts at pos, in stream order, up to its End.
RECURSIVE Entries(_, _)
Entries(r, pos) ==
    LET t == readRawNodeType(r, pos)
    IN  IF t.err # Nil \/ t.val = NodeTypeEnd
        THEN <<>>
        ELSE LET name == readRawString(r, t.pos)
                 child == readNodeOfType(r, name.pos, t.val, FALSE)
             IN  IF name.err # Nil \/ child.err # Nil
                 THEN <<>>
                 ELSE <<[key |-> name.val, node |-> child.node]>> \o Entries(r, child.pos)

LastWins(entries) ==
    [k \in {entries[i].key : i \in 1..Len(entries)} |->
        LET last == CHOOSE i \in 1..Len(entries) :
                        /\ entries[i].key = k
                        /\ \A j \in (i + 1)..Len(entries) : entries[j].key # k
        IN  entries[last].node]

\* C4: a nested Map that decodes holds exactly the keys of the entries before
\* its End, each with the value of the key's last entry.
C4_NestedMapLastWins ==
    \A c \in CallsOf(NodeTypeCompound) :
        ~c.isRoot =>
            LET m == readCompoundNode(stream, c.pos, FALSE)
            IN  m.err = Nil => m.node.Values = LastWins(Entries(stream, c.pos))

C4_Witness ==
    /\ Done
    /\ result.err = Nil
    /\ \E c \in CallsOf(NodeTypeCompound) :
          /\ ~c.isRoot
          /\ LET e == Entries(stream, c.pos)
             IN  /\ Len(e) = 2
                 /\ e[1].key = e[2].key
                 /\ e[1].node # e[2].node

\* Whether the decode of the stream asked for a byte behind the stream's end:
\* with one more byte there, the cursor moves past the old end.
ShortRead == ReadFromStream(stream \o <<0>>).pos > Len(stream)

\* C5: a decode that runs out of bytes inside any field returns the EOF error
\* and no File; so no proper truncation of the bytes a successful decode
\* consumed decodes successfully.
C5_TruncationFails ==
    Done =>
        /\ ShortRead => (IsEOF(result.err) /\ result.file = NilNode)
        /\ result.err = Nil =>
              \A n \in 0..(result.pos - 1) :
                  IsEOF(ReadFromStream(SubSeq(stream, 1, n)).err)

C5_Witness ==
    /\ Done
    /\ ShortRead
    /\ Cause(result.err) = ErrUnexpectedEOF
    /\ \E c \in CallsOf(NodeTypeInt) : c.pos + 2 = Len(stream)

SupportedTypes == {NodeTypeByte, NodeTypeShort, NodeTypeInt, NodeTypeLong,
                   NodeTypeFloat, NodeTypeDouble, NodeTypeString, NodeTypeList,
                   NodeTypeCompound, NodeTypeIntArray}

\* C6: when readNodeOfType is called for a type without a reader, that call is
\* the decode's last one, the decode returns the unsupported-type error and no
\* File, and the cursor still stands where the call found it.
C6_UnsupportedFails ==
    Done =>
        \A i \in 1..Len(result.calls) :
            result.calls[i].nodeType \notin SupportedTypes =>
                /\ i = Len(result.calls)
                /\ ~result.panicked
                /\ Cause(result.err) = ErrUnsupported
                /\ result.file = NilNode
                /\ result.pos = result.calls[i].pos

C6_Witness ==
    /\ Done
    /\ Cause(result.err) = ErrUnsupported
    /\ \E c \in CallsOf(NodeTypeByteArray) : c.pos < Len(stream)
    /\ result.pos < Len(stream)

\* C8: every node readNodeOfType returned during a successful decode reports
\* the type it was read as.
C8_TypeIsWireTag ==
    (Done /\ result.err = Nil) =>
        \A c \in Calls :
            Type(readNodeOfType(stream, c.pos, c.nodeType, c.isRoot).node) = c.nodeType

\* C9: a List whose declared count is zero or negative decodes to the empty
\* List, with the cursor right behind the count, and nothing panics.
C9_NonPositiveCountIsEmpty ==
    Done =>
        \A c \in CallsOf(NodeTypeList) :
            LET childCount == readRawInt(stream, c.pos + 1)
                l == readListNode(stream, c.pos)
            IN  (childCount.err = Nil /\ childCount.val <= 0) =>
                    /\ ~result.panicked
                    /\ l.err = Nil
                    /\ l.node.Values = <<>>
                    /\ l.pos = c.pos + 5

\* C10: the root's entry loop runs like a nested Map's: when the stream holds
\* two or more entries with distinct keys and then End, the root Map has all
\* of them and the cursor stands behind that End.
C10_RootLoopsUntilEnd ==
    Done =>
        LET nested == readCompoundNode(stream, 0, FALSE)
        IN  (nested.err = Nil /\ Cardinality(DOMAIN nested.node.Values) >= 2) =>
                /\ result.err = Nil
                /\ DOMAIN result.file.Root.Values = DOMAIN nested.node.Values
                /\ result.pos = nested.pos

(***************************************************************************)
(* Scalars, bit for bit.                                                   *)
(***************************************************************************)
\* The w low bits of n >= 0, most significant first.
ToBits(n, w) == [i \in 1..w |-> (n \div 2^(w - i)) % 2]

\* The w bits of the two's-complement representation of v, w <= 32.
SignedBits(v, w) ==
    IF v < 0
    THEN <<1>> \o ToBits((v + ((2^(w - 2) - 1) * 2 + 1)) + 1, w - 1)
    ELSE <<0>> \o ToBits(v, w - 1)

\* The bits of a byte sequence, in stream order.
Bits(b) == [i \in 1..(8 * Len(b)) |-> (b[((i - 1) \div 8) + 1] \div 2^(7 - ((i - 1) % 8))) % 2]

\* The bit pattern a scalar node's value stands for.
NodeBits(n) ==
    CASE n.struct = "ByteNode"   -> ToBits(n.Value, 8)
      [] n.struct = "ShortNode"  -> SignedBits(n.Value, 16)
      [] n.struct = "IntNode"    -> SignedBits(n.Value, 32)
      [] n.struct = "LongNode"   -> SignedBits(n.Value[1], 16) \o ToBits(n.Value[2], 16)
                                    \o ToBits(n.Value[3], 16) \o ToBits(n.Value[4], 16)
      [] n.struct = "FloatNode"  -> <<n.Value.sign>> \o ToBits(n.Value.exp, 8)
                                    \o ToBits(n.Value.frac, 23)
      [] n.struct = "DoubleNode" -> <<n.Value.sign>> \o ToBits(n.Value.exp, 11)
                                    \o ToBits(n.Value.frac[1], 4)
                                    \o ToBits(n.Value.frac[2], 16)
                                    \o ToBits(n.Value.frac[3], 16)
                                    \o ToBits(n.Value.frac[4], 16)

Width(nodeType) ==
    CASE nodeType = NodeTypeByte   -> 1
      [] nodeType = NodeTypeShort  -> 2
      [] nodeType = NodeTypeInt    -> 4
      [] nodeType = NodeTypeLong   -> 8
      [] nodeType = NodeTypeFloat  -> 4
      [] nodeType = NodeTypeDouble -> 8

StructOf(nodeType) ==
    CASE nodeType = NodeTypeByte   -> "ByteNode"
      [] nodeType = NodeTypeShort  -> "ShortNode"
      [] nodeType = NodeTypeInt    -> "IntNode"
      [] nodeType = NodeTypeLong   -> "LongNode"
      [] nodeType = NodeTypeFloat  -> "FloatNode"
      [] nodeType = NodeTypeDouble -> "DoubleNode"

Decoded == value # None

StartsWith(prefix) ==
    Len(stream) >= Len(prefix) /\ SubSeq(stream, 1, Len(prefix)) = prefix

\* C7: a scalar of width w is read from exactly the next w bytes, and its value
\* has the bit pattern of those bytes, first byte first: two's complement for
\* Short, Int and Long, sign/exponent/fraction for Float and Double; the
\* extremes of each width decode to the extremes of the type.
C7_ScalarBigEndian ==
    Decoded =>
        LET w == Width(value.nodeType)
            out == value.out
        IN  IF Len(stream) < w
            THEN IsEOF(out.err)
            ELSE /\ out.err = Nil
                 /\ out.pos = w
                 /\ out.node.struct = StructOf(value.nodeType)
                 /\ NodeBits(out.node) = Bits(SubSeq(stream, 1, w))
                 /\ (value.nodeType = NodeTypeShort /\ StartsWith(<<128, 0>>))
                        => out.node.Value = -32768
                 /\ (value.nodeType = NodeTypeShort /\ StartsWith(<<127, 255>>))
                        => out.node.Value = 32767
                 /\ (value.nodeType = NodeTypeInt /\ StartsWith(<<128, 0, 0, 0>>))
                        => out.node.Value = -2147483647 - 1
                 /\ (value.nodeType = NodeTypeInt /\ StartsWith(<<127, 255, 255, 255>>))
                        => out.node.Value = 2147483647
                 /\ (value.nodeType = NodeTypeInt /\ StartsWith(<<255, 255, 255, 255>>))
                        => out.node.Value = -1
                 /\ (value.nodeType = NodeTypeLong
                        /\ StartsWith(<<128, 0, 0, 0, 0, 0, 0, 0>>))
                        => out.node.Value = <<-32768, 0, 0, 0>>
                 /\ (value.nodeType = NodeTypeLong
                        /\ StartsWith(<<127, 255, 255, 255, 255, 255, 255, 255>>))
                        => out.node.Value = <<32767, 65535, 65535, 65535>>
                 /\ (value.nodeType = NodeTypeFloat /\ StartsWith(<<128, 0, 0, 0>>))
                        => out.node.Value = [sign |-> 1, exp |-> 0, frac |-> 0]
                 /\ (value.nodeType = NodeTypeFloat /\ StartsWith(<<127, 128, 0, 255>>))
                        => out.node.Value = [sign |-> 0, exp |-> 255, frac |-> 255]

C7_Witness ==
    /\ Decoded
    /\ value.nodeType = NodeTypeDouble
    /\ StartsWith(<<127, 255, 128, 0, 0, 0, 0, 255>>)
    /\ value.out.err = Nil
    /\ value.out.node.Value = [sign |-> 0, exp |-> 2047, frac |-> <<15, 32768, 0, 255>>]

====
